---- MODULE Spec2Model ----
(***************************************************************************)
(* NyayaSahayak backend: the sentence chunker (modules/utils.py), the      *)
(* four-stage LangGraph workflow (modules/langgraph_workflow.py) and the   *)
(* direct retrieval-augmented path (modules/rag_agent.py) over the vector  *)
(* retriever (modules/retriever.py).                                       *)
(*                                                                         *)
(* A text is a sequence of one-character strings.  ChunkSpec runs          *)
(* chunk_text on every text of a bounded set; Spec runs one query through  *)
(* either the workflow or the direct path.                                 *)
(***************************************************************************)
EXTENDS Integers, Sequences, FiniteSets, TLC

VARIABLES
    \* ---- chunk_text(text, chunk_size, overlap): arguments and locals
    text, chunk_size, overlap,
    sentences,        \* re.split result: sequence of sentences (char sequences)
    sent_idx,         \* position of the for-loop over sentences (next to process)
    chunks,           \* the list being returned: sequence of chunk strings
    current_chunk,    \* sentences of the open chunk, as positions in `sentences`
    current_length,   \* running word count of the open chunk
    seed_len,         \* how many leading entries of current_chunk came from overlap_words
    chunk_parts,      \* per emitted chunk: [sents |-> its sentence positions, seed |-> seed_len]
    cpc,              \* "start" | "loop" | "done"
    \* ---- one query run, by LegalAgentWorkflow.process_query or RAGAgent.process_query
    client,           \* TRUE when an API key was given, so self.client is an OpenAI client
    store_exists,     \* the vector store holds the collection "legal_cases"
    store_docs,       \* the documents of that collection, in insertion order
    coll_loaded,      \* VectorRetriever.collection is not None
    query,            \* the query string of the call
    pc,               \* "idle", the node about to run, "done" (END reached), "failed",
                      \* "direct_done" or "direct_raised"
    state,            \* the AgentState threaded through the graph
    twin,             \* the AgentState of the same run when no language-model call raises
    llm_calls,        \* log of the language-model calls (_call_llm): [stage, sent, ok]
    llm_response,     \* query_analysis_node: the text _call_llm returned (`response`)
    retrieved_docs,   \* RAGAgent.process_query: the documents retrieve_context returned
    response,         \* <<>> until the call returns, then <<the returned dict>>
    store_calls,      \* log of the calls made on the vector store and the embedding
                      \* model: [op, n]
    \* ---- VectorRetriever.index_cases(cases, chunk_size): arguments and locals
    cases,            \* the corpus: sequence of case records [id, title, text]
    index_chunk_size, \* the chunk_size argument
    documents, metadatas, ids,   \* the three parallel lists built from the chunks
    case_i,           \* position of the loop over cases (next case to chunk)
    batch_i,          \* `i` of the loop over range(0, len(documents), batch_size)
    ipc,              \* "idle" | "running" | "done"
    index_round,      \* how many index_cases calls have started
    first_index,      \* the documents of the collection when the first call returned
    \* ---- two query runs on two threads over one VectorRetriever
    run_kind,         \* per run: "agentic" (LegalAgentWorkflow) or "direct" (RAGAgent)
    run_pc,           \* per run: where its thread stands
    run_state,        \* per run: its AgentState (<<>> for a direct run)
    run_response,     \* per run: <<>> until process_query returns, then <<the dict>>
    model_loaded,     \* EmbeddingModel.model is not None
    \* ---- DataLoader
    raw_rows,         \* the rows read_parquet returns, in file order
    df,               \* self.df: <<>> while None, else <<the rows, each with its index label>>
    all_cases,        \* <<>> until get_all_cases has returned, then <<the list>>
    lookup_id,        \* the argument of the last get_case_by_id call
    lookup,           \* its result: <<>> before any call, <<the dict>> or <<"ValueError">>
    \* ---- the request layer (main.py)
    system_initialized,
    spc,              \* "boot" before startup_event, "serving" after it, "crashed" when it raised
    requests          \* log of the handled requests: [endpoint, status, invoked]

chunkVars == <<text, chunk_size, overlap, sentences, sent_idx, chunks,
               current_chunk, current_length, seed_len, chunk_parts, cpc>>

runVars == <<client, store_exists, store_docs, coll_loaded, query, pc, state, twin,
             llm_calls, llm_response, retrieved_docs, response, store_calls>>

indexVars == <<cases, index_chunk_size, documents, metadatas, ids, case_i, batch_i, ipc,
               index_round, first_index>>

concVars == <<run_kind, run_pc, run_state, run_response, model_loaded>>

loaderVars == <<raw_rows, df, all_cases, lookup_id, lookup>>

serverVars == <<system_initialized, spc, requests>>

vars == <<chunkVars, runVars, indexVars, concVars, loaderVars, serverVars>>

\* What the steps of chunk_text, of a query run and of index_cases leave alone.
outsideChunk == <<runVars, indexVars, concVars, loaderVars, serverVars>>

outsideRun == <<chunkVars, indexVars, concVars, loaderVars, serverVars>>

outsideIndex == <<chunkVars, concVars, loaderVars, serverVars>>

----------------------------------------------------------------------------
(* Bounds of the chunker inputs *)

MaxTextLen == 7
MaxChunkSize == 3
MaxOverlap == 2

Chars == {"a", ".", " "}

ExampleText == <<"A", ".", " ", "B", ".", " ", "C", ".", " ", "D", ".">>

SeqsUpTo(S, n) == UNION {[1..k -> S] : k \in 0..n}

Texts == SeqsUpTo(Chars, MaxTextLen) \cup {ExampleText}

----------------------------------------------------------------------------
(* String helpers used by chunk_text *)

IsSpace(c) == c = " "

IsTerminator(c) == c \in {".", "!", "?"}

\* Position just past the whitespace run that starts at i.
RECURSIVE SkipSpaces(_, _)
SkipSpaces(t, i) ==
    IF i <= Len(t) /\ IsSpace(t[i]) THEN SkipSpaces(t, i + 1) ELSE i

\* re.split(r'(?<=[.!?])\s+', text): cut at every whitespace run that directly
\* follows a terminator; the run itself is dropped; the last piece is always
\* returned, even when empty.
RECURSIVE SplitFrom(_, _, _, _)
SplitFrom(t, i, cur, acc) ==
    IF i > Len(t) THEN Append(acc, cur)
    ELSE IF IsSpace(t[i]) /\ i > 1 /\ IsTerminator(t[i - 1])
         THEN SplitFrom(t, SkipSpaces(t, i), <<>>, Append(acc, cur))
         ELSE SplitFrom(t, i + 1, Append(cur, t[i]), acc)

SplitSentences(t) == SplitFrom(t, 1, <<>>, <<>>)

\* len(s.split()): the number of maximal runs of non-whitespace characters.
WordCount(s) ==
    Cardinality({i \in 1..Len(s) : ~IsSpace(s[i]) /\ (i = 1 \/ IsSpace(s[i - 1]))})

\* ' '.join(parts)
RECURSIVE JoinWithSpace(_)
JoinWithSpace(parts) ==
    IF parts = <<>> THEN <<>>
    ELSE IF Len(parts) = 1 THEN parts[1]
    ELSE parts[1] \o <<" ">> \o JoinWithSpace(Tail(parts))

\* The strings of the sentences at the positions idxs.
SentencesAt(sents, idxs) == [k \in 1..Len(idxs) |-> sents[idxs[k]]]

\* Variant of OverlapWalk with a strict comparison against the overlap budget.
RECURSIVE OverlapWalkStrict(_, _, _, _, _)
OverlapWalkStrict(sents, chunk, k, ov, acc) ==
    IF k = 0 THEN acc
    ELSE LET s_length == WordCount(sents[chunk[k]])
         IN IF acc.length + s_length < ov
            THEN OverlapWalkStrict(sents, chunk, k - 1, ov,
                                   [words |-> <<chunk[k]>> \o acc.words,
                                    length |-> acc.length + s_length])
            ELSE acc

\* The backward walk over the closed chunk: prepend whole sentences while the
\* overlap word budget is not exceeded, stop at the first that does not fit.
RECURSIVE OverlapWalk(_, _, _, _, _)
OverlapWalk(sents, chunk, k, ov, acc) ==
    IF k = 0 THEN acc
    ELSE LET s_length == WordCount(sents[chunk[k]])
         IN IF acc.length + s_length <= ov
            THEN OverlapWalk(sents, chunk, k - 1, ov,
                             [words |-> <<chunk[k]>> \o acc.words,
                              length |-> acc.length + s_length])
            ELSE acc

OverlapWords(sents, chunk, ov) ==
    OverlapWalk(sents, chunk, Len(chunk), ov, [words |-> <<>>, length |-> 0])

\* Variant of MustClose that forgets the words already in the open chunk.
MustCloseIgnoresCurrent(cur_len, sentence_length, size, chunk) ==
    sentence_length > size /\ chunk # <<>>

\* The test that closes the open chunk before the sentence is appended.
MustClose(cur_len, sentence_length, size, chunk) ==
    cur_len + sentence_length > size /\ chunk # <<>>

\* The test that emits the last open chunk.
EmitsLast(chunk) == chunk # <<>>

----------------------------------------------------------------------------
(* The query-run variables while no query is being served (chunker runs). *)

\* The index_cases variables while index_cases is not running.
IndexIdle ==
    /\ cases = <<>>
    /\ index_chunk_size = 1
    /\ documents = <<>>
    /\ metadatas = <<>>
    /\ ids = <<>>
    /\ case_i = 0
    /\ batch_i = 0
    /\ ipc = "idle"
    /\ index_round = 0
    /\ first_index = <<>>

\* The two-thread variables while no concurrent run is modelled.
ConcIdle ==
    /\ run_kind = <<>>
    /\ run_pc = <<>>
    /\ run_state = <<>>
    /\ run_response = <<>>
    /\ model_loaded = FALSE

\* The DataLoader variables before load_data.
LoaderIdle ==
    /\ raw_rows = <<>>
    /\ df = <<>>
    /\ all_cases = <<>>
    /\ lookup_id = 0
    /\ lookup = <<>>

\* The request-layer variables outside a server process.
ServerIdle ==
    /\ system_initialized = FALSE
    /\ spc = "boot"
    /\ requests = <<>>

RunIdle ==
    /\ client = FALSE
    /\ store_exists = FALSE
    /\ store_docs = <<>>
    /\ coll_loaded = FALSE
    /\ query = ""
    /\ pc = "idle"
    /\ state = <<>>
    /\ twin = <<>>
    /\ llm_calls = <<>>
    /\ llm_response = <<>>
    /\ retrieved_docs = <<>>
    /\ response = <<>>
    /\ store_calls = <<>>

----------------------------------------------------------------------------
(* chunk_text as a state machine *)

ChunkInit ==
    /\ text \in Texts
    /\ chunk_size \in 1..MaxChunkSize
    /\ overlap \in 0..MaxOverlap
    /\ sentences = <<>>
    /\ sent_idx = 0
    /\ chunks = <<>>
    /\ current_chunk = <<>>
    /\ current_length = 0
    /\ seed_len = 0
    /\ chunk_parts = <<>>
    /\ cpc = "start"
    /\ RunIdle
    /\ IndexIdle
    /\ ConcIdle
    /\ LoaderIdle
    /\ ServerIdle

\* Lines 9-13: split into sentences, empty result and empty open chunk.
ChunkStart ==
    /\ cpc = "start"
    /\ sentences' = SplitSentences(text)
    /\ sent_idx' = 1
    /\ chunks' = <<>>
    /\ current_chunk' = <<>>
    /\ current_length' = 0
    /\ seed_len' = 0
    /\ chunk_parts' = <<>>
    /\ cpc' = "loop"
    /\ UNCHANGED <<text, chunk_size, overlap>>
    /\ UNCHANGED outsideChunk

\* Variant of ChunkSentence that leaves the closing sentence out of the new chunk.
ChunkSentenceDropsTrigger ==
    /\ cpc = "loop"
    /\ sent_idx <= Len(sentences)
    /\ LET sentence_length == WordCount(sentences[sent_idx])
           ov == OverlapWords(sentences, current_chunk, overlap)
       IN IF MustClose(current_length, sentence_length, chunk_size, current_chunk)
          THEN /\ chunks' = Append(chunks, JoinWithSpace(SentencesAt(sentences, current_chunk)))
               /\ chunk_parts' = Append(chunk_parts, [sents |-> current_chunk, seed |-> seed_len])
               /\ current_chunk' = ov.words
               /\ current_length' = ov.length
               /\ seed_len' = Len(ov.words)
          ELSE /\ current_chunk' = Append(current_chunk, sent_idx)
               /\ current_length' = current_length + sentence_length
               /\ UNCHANGED <<chunks, chunk_parts, seed_len>>
    /\ sent_idx' = sent_idx + 1
    /\ UNCHANGED <<text, chunk_size, overlap, sentences, cpc>>
    /\ UNCHANGED outsideChunk

\* Lines 15-35: one iteration of the loop over the sentences.
ChunkSentence ==
    /\ cpc = "loop"
    /\ sent_idx <= Len(sentences)
    /\ LET sentence_length == WordCount(sentences[sent_idx])
           ov == OverlapWords(sentences, current_chunk, overlap)
       IN IF MustClose(current_length, sentence_length, chunk_size, current_chunk)
          THEN /\ chunks' = Append(chunks, JoinWithSpace(SentencesAt(sentences, current_chunk)))
               /\ chunk_parts' = Append(chunk_parts, [sents |-> current_chunk, seed |-> seed_len])
               /\ current_chunk' = Append(ov.words, sent_idx)
               /\ current_length' = ov.length + sentence_length
               /\ seed_len' = Len(ov.words)
          ELSE /\ current_chunk' = Append(current_chunk, sent_idx)
               /\ current_length' = current_length + sentence_length
               /\ UNCHANGED <<chunks, chunk_parts, seed_len>>
    /\ sent_idx' = sent_idx + 1
    /\ UNCHANGED <<text, chunk_size, overlap, sentences, cpc>>
    /\ UNCHANGED outsideChunk

\* Lines 37-40: emit the open chunk when it is non-empty, and return.
ChunkFinish ==
    /\ cpc = "loop"
    /\ sent_idx > Len(sentences)
    /\ IF EmitsLast(current_chunk)
       THEN /\ chunks' = Append(chunks, JoinWithSpace(SentencesAt(sentences, current_chunk)))
            /\ chunk_parts' = Append(chunk_parts, [sents |-> current_chunk, seed |-> seed_len])
       ELSE UNCHANGED <<chunks, chunk_parts>>
    /\ cpc' = "done"
    /\ UNCHANGED <<text, chunk_size, overlap, sentences, sent_idx,
                   current_chunk, current_length, seed_len>>
    /\ UNCHANGED outsideChunk

ChunkNext == ChunkStart \/ ChunkSentence \/ ChunkFinish

ChunkSpec == ChunkInit /\ [][ChunkNext]_vars

----------------------------------------------------------------------------
(* The collaborators of a query run: language model, embedding, vector store *)

MaxDocs == 3

Queries == {"q"}

CaseIds == {"0", "1"}

Titles == {"T0", "T1"}

\* Embedding vectors, one-dimensional: distance is the absolute difference.
Vectors == {0, 1}

\* A stored document: the metadata index_cases wrote (case_id, title; citation,
\* court and decision_date travel with title) and its embedding.
Docs == [case_id : CaseIds, title : Titles, vec : Vectors]

Collections == SeqsUpTo(Docs, MaxDocs)

\* Lines of a language-model completion.  A text is a sequence of lines.
IssuesHeader == "LEGAL ISSUES:"
KeywordsHeader == "KEYWORDS:"
Lines == {IssuesHeader, KeywordsHeader, "- a", " - b ", "- KEYWORDS: c", "note"}

\* The completions the model may give to the query-analysis prompt in a run:
\* one in the requested format, and the empty text.
AnalysisCompletions ==
    { <<IssuesHeader, "- a", " - b ", KeywordsHeader, "- a">>,
      <<>> }

SummaryCompletion == <<"summary">>

AnalystCompletion == <<"analysis">>

\* f"Error: {str(e)}" of _call_llm, "API key not configured", and the two
\* messages of RAGAgent.generate_response
LlmErrorText == <<"Error: e">>
NoKeyText == <<"API key not configured">>
DirectErrorText == <<"Error generating response: e">>
DirectNoKeyText == <<"OpenRouter API key not configured. Please add your API key to use LLM features.">>

\* line.strip(): the one line of the vocabulary with surrounding blanks is " - b ".
Strip(line) == IF line = " - b " THEN "- b" ELSE line

\* 'LEGAL ISSUES:' in line
HasIssuesHeader(line) == line = IssuesHeader

\* 'KEYWORDS:' in line
HasKeywordsHeader(line) == line \in {KeywordsHeader, "- KEYWORDS: c"}

\* line.startswith('-')
StartsWithDash(line) == line \in {"- a", "- b", "- KEYWORDS: c"}

\* line[1:].strip()
DashItem(line) ==
    CASE line = "- a" -> "a"
      [] line = "- b" -> "b"
      [] line = "- KEYWORDS: c" -> "KEYWORDS: c"

\* Variant of CallLlm that answers a failed request with the empty text.
CallLlmSwallowsError(has_client, completion, raises) ==
    IF ~has_client THEN NoKeyText
    ELSE IF raises THEN <<>>
    ELSE completion

\* _call_llm: the fixed text without a client, the completion, or the error
\* text when the request raises.
CallLlm(has_client, completion, raises) ==
    IF ~has_client THEN NoKeyText
    ELSE IF raises THEN LlmErrorText
    ELSE completion

\* What a call of _call_llm (or generate_response) adds to the log: the stage
\* that called, whether a request went out (a client is configured) and whether
\* it came back without raising.
LogCall(log, has_client, stage, raises) ==
    Append(log, [stage |-> stage, sent |-> has_client, ok |-> ~raises])

\* The parsing loop of query_analysis_node over the lines of the response.
RECURSIVE ParseLines(_, _, _)
ParseLines(lines, section, acc) ==
    IF lines = <<>> THEN acc
    ELSE LET line == Strip(Head(lines))
         IN IF HasIssuesHeader(line) THEN ParseLines(Tail(lines), "issues", acc)
            ELSE IF HasKeywordsHeader(line) THEN ParseLines(Tail(lines), "keywords", acc)
            ELSE IF StartsWithDash(line)
                 THEN IF section = "issues"
                      THEN ParseLines(Tail(lines), section,
                               [acc EXCEPT !.legal_issues = Append(@, DashItem(line))])
                      ELSE IF section = "keywords"
                      THEN ParseLines(Tail(lines), section,
                               [acc EXCEPT !.keywords = Append(@, DashItem(line))])
                      ELSE ParseLines(Tail(lines), section, acc)
                 ELSE ParseLines(Tail(lines), section, acc)

ParseAnalysis(resp) ==
    ParseLines(resp, "none", [legal_issues |-> <<>>, keywords |-> <<>>])

\* Variant of OrQuery without the default.
OrQueryNoFallback(xs, q) == xs

\* `xs if xs else [query]`
OrQuery(xs, q) == IF xs # <<>> THEN xs ELSE <<q>>

\* |a - b|
Distance(a, b) == IF a >= b THEN a - b ELSE b - a

\* collection.query: the documents ranked by ascending distance to the query
\* vector (insertion order among equals), at most n_results of them, each as
\* retrieve() returns it.
RECURSIVE RankFrom(_, _, _)
RankFrom(docs, qv, d) ==
    IF d > 1 THEN <<>>
    ELSE SelectSeq(docs, LAMBDA x : Distance(qv, x.vec) = d) \o RankFrom(docs, qv, d + 1)

FirstN(xs, n) == SubSeq(xs, 1, IF Len(xs) <= n THEN Len(xs) ELSE n)

Retrieve(docs, qv, top_k) ==
    LET ranked == FirstN(RankFrom(docs, qv, 0), top_k)
    IN [i \in 1..Len(ranked) |->
           [metadata |-> [case_id |-> ranked[i].case_id, title |-> ranked[i].title],
            distance |-> Distance(qv, ranked[i].vec)]]

\* Variant of RelatedFrom that never records the case ids it has seen.
RECURSIVE RelatedFromNoSeen(_, _, _)
RelatedFromNoSeen(docs, seen_cases, related_cases) ==
    IF docs = <<>> THEN related_cases
    ELSE LET case_id == Head(docs).metadata.case_id
         IN IF case_id \notin seen_cases
            THEN RelatedFromNoSeen(Tail(docs), seen_cases,
                                   Append(related_cases, [title |-> Head(docs).metadata.title]))
            ELSE RelatedFromNoSeen(Tail(docs), seen_cases, related_cases)

\* The loop that derives related_cases: one entry per case_id not seen before.
RECURSIVE RelatedFrom(_, _, _)
RelatedFrom(docs, seen_cases, related_cases) ==
    IF docs = <<>> THEN related_cases
    ELSE LET case_id == Head(docs).metadata.case_id
         IN IF case_id \notin seen_cases
            THEN RelatedFrom(Tail(docs), seen_cases \cup {case_id},
                             Append(related_cases, [title |-> Head(docs).metadata.title]))
            ELSE RelatedFrom(Tail(docs), seen_cases, related_cases)

RelatedCases(docs) == RelatedFrom(docs, {}, <<>>)

----------------------------------------------------------------------------
(* LegalAgentWorkflow: the four nodes and process_query *)

TopKWorkflow == 7
TopKDirect == 5
MaxSummarized == 5

NoteAnalysis == "Analyzing query for legal issues and keywords"
NoteRetrieval == "Retrieving relevant legal cases from database"
NoteSummarizer == "Summarizing key arguments from retrieved cases"
NoteAnalyst == "Synthesizing legal analysis and generating final answer"

\* initial_state of process_query
InitialState(q) ==
    [query |-> q, legal_issues |-> <<>>, keywords |-> <<>>, retrieved_cases |-> <<>>,
     case_summaries |-> <<>>, legal_analysis |-> <<>>, final_answer |-> <<>>,
     related_cases |-> <<>>, reasoning_steps |-> <<>>]

\* query_analysis_node on the response text of its one _call_llm.
AnalysisNode(st, resp) ==
    LET parsed == ParseAnalysis(resp)
    IN [st EXCEPT !.reasoning_steps = Append(@, NoteAnalysis),
                  !.legal_issues = OrQuery(parsed.legal_issues, st.query),
                  !.keywords = OrQuery(parsed.keywords, st.query)]

\* f"{query} {' '.join(keywords)}": the words of the search string.
SearchQuery(st) == <<st.query>> \o st.keywords

\* retrieval_node on the documents retrieve() returned.
RetrievalNode(st, docs) ==
    [st EXCEPT !.reasoning_steps = Append(@, NoteRetrieval),
               !.retrieved_cases = docs,
               !.related_cases = RelatedCases(docs)]

\* f"[{metadata.get('title')}]: {summary}"
SummaryOf(doc, summary) == <<"[", doc.metadata.title, "]: ">> \o summary

\* Variant of SummarizerNode that also clears related_cases.
SummarizerNodeClearsRelated(st, resps) ==
    LET docs == FirstN(st.retrieved_cases, MaxSummarized)
    IN [st EXCEPT !.reasoning_steps = Append(@, NoteSummarizer),
                  !.related_cases = <<>>,
                  !.case_summaries = [i \in 1..Len(docs) |-> SummaryOf(docs[i], resps[i])]]

\* summarizer_node on the response texts of its _call_llm calls, one per
\* document of retrieved_cases[:5].
SummarizerNode(st, resps) ==
    LET docs == FirstN(st.retrieved_cases, MaxSummarized)
    IN [st EXCEPT !.reasoning_steps = Append(@, NoteSummarizer),
                  !.case_summaries = [i \in 1..Len(docs) |-> SummaryOf(docs[i], resps[i])]]

\* legal_analyst_node on the response text of its one _call_llm.
AnalystNode(st, analysis) ==
    [st EXCEPT !.reasoning_steps = Append(@, NoteAnalyst),
               !.legal_analysis = analysis,
               !.final_answer = analysis]

\* The dict process_query returns after workflow.invoke.
WorkflowResponse(q, final_state) ==
    [query |-> q,
     answer |-> final_state.final_answer,
     related_cases |-> final_state.related_cases,
     legal_issues |-> final_state.legal_issues,
     reasoning_steps |-> final_state.reasoning_steps,
     processing_info |-> {<<"cases_retrieved", Len(final_state.retrieved_cases)>>,
                          <<"cases_analyzed", Len(final_state.case_summaries)>>}]

\* Variant of ErrorResponse that keeps the trace and issues gathered so far.
ErrorResponseWithTrace(q, st) ==
    [query |-> q,
     answer |-> <<"Error processing query: e">>,
     related_cases |-> <<>>,
     legal_issues |-> st.legal_issues,
     reasoning_steps |-> st.reasoning_steps,
     processing_info |-> {}]

\* The dict process_query returns from its except branch.
ErrorResponse(q, st) ==
    [query |-> q,
     answer |-> <<"Error processing query: e">>,
     related_cases |-> <<>>,
     legal_issues |-> <<>>,
     reasoning_steps |-> <<>>,
     processing_info |-> {}]

\* The edges of _build_workflow: entry point, add_edge, END.
EntryPoint == "query_analysis"

\* Variant of NextNode whose edge out of the summarizer leads back to retrieval.
NextNodeLoopsBack(node) ==
    CASE node = "query_analysis" -> "retrieval"
      [] node = "retrieval" -> "summarizer"
      [] node = "summarizer" -> "retrieval"
      [] node = "legal_analyst" -> "done"

NextNode(node) ==
    CASE node = "query_analysis" -> "retrieval"
      [] node = "retrieval" -> "summarizer"
      [] node = "summarizer" -> "legal_analyst"
      [] node = "legal_analyst" -> "done"

\* Variant of EnsureCollection that takes the handle without creating the collection.
EnsureCollectionNoCreate ==
    IF coll_loaded
    THEN UNCHANGED <<coll_loaded, store_exists, store_docs>>
    ELSE /\ coll_loaded' = TRUE
         /\ UNCHANGED <<store_exists, store_docs>>

\* `if self.collection is None: self.create_collection()`: get the collection,
\* or create it empty when the store does not hold it.
EnsureCollection ==
    IF coll_loaded
    THEN UNCHANGED <<coll_loaded, store_exists, store_docs>>
    ELSE /\ coll_loaded' = TRUE
         /\ store_exists' = TRUE
         /\ store_docs' = IF store_exists THEN store_docs ELSE <<>>

\* The calls create_collection makes on the store client: get_collection, and
\* create_collection when that raised.
EnsureCalls ==
    IF coll_loaded THEN <<>>
    ELSE IF store_exists THEN << [op |-> "get_collection", n |-> 0] >>
    ELSE << [op |-> "get_collection", n |-> 0], [op |-> "create_collection", n |-> 0] >>

\* The calls of one retrieve(query, top_k): the lazy create_collection, one
\* embed_text of the query and one collection.query with n_results = top_k.
RetrieveCalls(top_k) ==
    EnsureCalls \o << [op |-> "embed_text", n |-> 1], [op |-> "query", n |-> top_k] >>

RunInit ==
    /\ client \in BOOLEAN
    /\ store_docs \in Collections
    /\ store_exists \in BOOLEAN
    /\ store_docs # <<>> => store_exists
    /\ coll_loaded = FALSE
    /\ query \in Queries
    /\ pc = "idle"
    /\ state = <<>>
    /\ twin = <<>>
    /\ llm_calls = <<>>
    /\ llm_response = <<>>
    /\ retrieved_docs = <<>>
    /\ response = <<>>
    /\ store_calls = <<>>

ChunkIdle ==
    /\ text = <<>>
    /\ chunk_size = 1
    /\ overlap = 0
    /\ sentences = <<>>
    /\ sent_idx = 0
    /\ chunks = <<>>
    /\ current_chunk = <<>>
    /\ current_length = 0
    /\ seed_len = 0
    /\ chunk_parts = <<>>
    /\ cpc = "start"

\* process_query, lines 243-256: build initial_state and invoke the graph.
ProcessQueryStart ==
    /\ pc = "idle"
    /\ state' = InitialState(query)
    /\ twin' = InitialState(query)
    /\ pc' = EntryPoint
    /\ UNCHANGED <<client, store_exists, store_docs, coll_loaded, query, llm_calls,
                   llm_response, retrieved_docs, response, store_calls>>
    /\ UNCHANGED outsideRun

\* query_analysis_node, the model answering with one of `completions`.
QueryAnalysisOn(completions) ==
    /\ pc = "query_analysis"
    /\ \E completion \in completions, raises \in BOOLEAN :
          /\ client \/ ~raises
          /\ llm_response' = CallLlm(client, completion, raises)
          /\ state' = AnalysisNode(state, llm_response')
          /\ twin' = AnalysisNode(twin, CallLlm(client, completion, FALSE))
          /\ llm_calls' = LogCall(llm_calls, client, "query_analysis", raises)
    /\ pc' = NextNode("query_analysis")
    /\ UNCHANGED <<client, store_exists, store_docs, coll_loaded, query, retrieved_docs,
                   response, store_calls>>
    /\ UNCHANGED outsideRun

QueryAnalysis == QueryAnalysisOn(AnalysisCompletions)

\* retrieval_node; when retrieve() raises, the except branch of process_query returns.
Retrieval ==
    /\ pc = "retrieval"
    /\ EnsureCollection
    /\ store_calls' = store_calls \o RetrieveCalls(TopKWorkflow)
    /\ \E raises \in BOOLEAN, qv \in Vectors, tv \in Vectors :
          /\ SearchQuery(twin) = SearchQuery(state) => tv = qv
          /\ IF raises
             THEN /\ state' = [state EXCEPT !.reasoning_steps = Append(@, NoteRetrieval)]
                  /\ twin' = twin
                  /\ response' = <<ErrorResponse(query, state')>>
                  /\ pc' = "failed"
             ELSE /\ state' = RetrievalNode(state, Retrieve(store_docs, qv, TopKWorkflow))
                  /\ twin' = RetrievalNode(twin, Retrieve(store_docs, tv, TopKWorkflow))
                  /\ response' = response
                  /\ pc' = NextNode("retrieval")
    /\ UNCHANGED <<client, query, llm_calls, llm_response, retrieved_docs>>
    /\ UNCHANGED outsideRun

\* The requests of summarizer_node, in order, appended to the log.
RECURSIVE LogCalls(_, _, _, _)
LogCalls(log, has_client, stage, fails) ==
    IF fails = <<>> THEN log
    ELSE LogCalls(LogCall(log, has_client, stage, Head(fails)), has_client, stage, Tail(fails))

\* Variant of Summarizer that summarizes every retrieved document.
SummarizerAllCases ==
    /\ pc = "summarizer"
    /\ LET n == Len(state.retrieved_cases)
           tn == Len(twin.retrieved_cases)
       IN \E fails \in [1..n -> BOOLEAN] :
             /\ client \/ \A i \in 1..n : ~fails[i]
             /\ state' = [state EXCEPT
                   !.reasoning_steps = Append(@, NoteSummarizer),
                   !.case_summaries = [i \in 1..n |->
                       SummaryOf(state.retrieved_cases[i],
                                 CallLlm(client, SummaryCompletion, fails[i]))]]
             /\ twin' = [twin EXCEPT
                   !.reasoning_steps = Append(@, NoteSummarizer),
                   !.case_summaries = [i \in 1..tn |->
                       SummaryOf(twin.retrieved_cases[i],
                                 CallLlm(client, SummaryCompletion, FALSE))]]
             /\ llm_calls' = LogCalls(llm_calls, client, "summarizer", fails)
    /\ pc' = NextNode("summarizer")
    /\ UNCHANGED <<client, store_exists, store_docs, coll_loaded, query, llm_response,
                   retrieved_docs, response, store_calls>>
    /\ UNCHANGED outsideRun

\* summarizer_node
Summarizer ==
    /\ pc = "summarizer"
    /\ LET n == Len(FirstN(state.retrieved_cases, MaxSummarized))
           tn == Len(FirstN(twin.retrieved_cases, MaxSummarized))
       IN \E fails \in [1..n -> BOOLEAN] :
             /\ client \/ \A i \in 1..n : ~fails[i]
             /\ state' = SummarizerNode(state,
                            [i \in 1..n |-> CallLlm(client, SummaryCompletion, fails[i])])
             /\ twin' = SummarizerNode(twin,
                            [i \in 1..tn |-> CallLlm(client, SummaryCompletion, FALSE)])
             /\ llm_calls' = LogCalls(llm_calls, client, "summarizer", fails)
    /\ pc' = NextNode("summarizer")
    /\ UNCHANGED <<client, store_exists, store_docs, coll_loaded, query, llm_response,
                   retrieved_docs, response, store_calls>>
    /\ UNCHANGED outsideRun

\* legal_analyst_node, the last node: the graph reaches END, workflow.invoke
\* returns the final state and process_query returns its projection (lines 258-268).
LegalAnalyst ==
    /\ pc = "legal_analyst"
    /\ \E raises \in BOOLEAN :
          /\ client \/ ~raises
          /\ state' = AnalystNode(state, CallLlm(client, AnalystCompletion, raises))
          /\ twin' = AnalystNode(twin, CallLlm(client, AnalystCompletion, FALSE))
          /\ llm_calls' = LogCall(llm_calls, client, "legal_analyst", raises)
    /\ response' = <<WorkflowResponse(query, state')>>
    /\ pc' = NextNode("legal_analyst")
    /\ UNCHANGED <<client, store_exists, store_docs, coll_loaded, query, llm_response,
                   retrieved_docs, store_calls>>
    /\ UNCHANGED outsideRun

----------------------------------------------------------------------------
(* RAGAgent.process_query: the direct path *)

\* format_context: one numbered block per retrieved document.
FormatContext(docs) ==
    [i \in 1..Len(docs) |-> [n |-> i, title |-> docs[i].metadata.title]]

\* generate_response
GenerateResponse(has_client, completion, raises) ==
    IF ~has_client THEN DirectNoKeyText
    ELSE IF raises THEN DirectErrorText
    ELSE completion

\* The dict RAGAgent.process_query returns.
DirectResponse(q, docs, answer) ==
    [query |-> q,
     answer |-> answer,
     related_cases |-> RelatedCases(docs),
     context |-> FormatContext(docs)]

\* RAGAgent.process_query, the whole call.  retrieve_context is called outside
\* any try block: when it raises, the exception leaves process_query and no
\* dict is returned.
DirectQuery ==
    /\ pc = "idle"
    /\ EnsureCollection
    /\ store_calls' = store_calls \o RetrieveCalls(TopKDirect)
    /\ \E retrieval_raises \in BOOLEAN, llm_raises \in BOOLEAN, qv \in Vectors :
          /\ client \/ ~llm_raises
          /\ retrieval_raises => ~llm_raises
          /\ IF retrieval_raises
             THEN /\ pc' = "direct_raised"
                  /\ UNCHANGED <<retrieved_docs, response, llm_calls>>
             ELSE /\ retrieved_docs' = Retrieve(store_docs, qv, TopKDirect)
                  /\ response' = <<DirectResponse(query, retrieved_docs',
                                     GenerateResponse(client, AnalystCompletion, llm_raises))>>
                  /\ llm_calls' = LogCall(llm_calls, client, "direct", llm_raises)
                  /\ pc' = "direct_done"
    /\ UNCHANGED <<client, query, state, twin, llm_response>>
    /\ UNCHANGED outsideRun

Init == RunInit /\ ChunkIdle /\ IndexIdle /\ ConcIdle /\ LoaderIdle /\ ServerIdle

\* The query-analysis node alone, on every completion of at most MaxLines lines.
MaxLines == 3

QueryAnalysisAny == QueryAnalysisOn(SeqsUpTo(Lines, MaxLines))

AnalysisNext == ProcessQueryStart \/ QueryAnalysisAny

AnalysisInit == Init /\ store_docs = <<>>

AnalysisSpec == AnalysisInit /\ [][AnalysisNext]_vars

Next ==
    \/ ProcessQueryStart
    \/ QueryAnalysis
    \/ Retrieval
    \/ Summarizer
    \/ LegalAnalyst
    \/ DirectQuery

Spec == Init /\ [][Next]_vars

\* Runs over collections of up to MaxStored documents, more than retrieve asks for.
MaxStored == 8

StoredDoc(i) ==
    [case_id |-> IF i % 3 = 0 THEN "1" ELSE "0",
     title |-> IF i % 3 = 0 THEN "T1" ELSE "T0",
     vec |-> i % 2]

StoredCollections == {[i \in 1..n |-> StoredDoc(i)] : n \in 0..MaxStored}

SummaryInit ==
    /\ client \in BOOLEAN
    /\ store_docs \in StoredCollections
    /\ store_exists \in BOOLEAN
    /\ store_docs # <<>> => store_exists
    /\ coll_loaded = FALSE
    /\ query \in Queries
    /\ pc = "idle"
    /\ state = <<>>
    /\ twin = <<>>
    /\ llm_calls = <<>>
    /\ llm_response = <<>>
    /\ retrieved_docs = <<>>
    /\ response = <<>>
    /\ store_calls = <<>>
    /\ ChunkIdle /\ IndexIdle /\ ConcIdle /\ LoaderIdle /\ ServerIdle

SummarySpec == SummaryInit /\ [][Next]_vars

----------------------------------------------------------------------------
(* VectorRetriever.index_cases: the write path *)

BatchSize == 100
DefaultOverlap == 128

MaxCases == 2
MaxIndexChunkSize == 2

\* chunk_text as a function: the loop over the sentences from position k on,
\* with the chunks emitted so far, the open chunk and its word count.
RECURSIVE ChunkLoop(_, _, _, _, _, _, _)
ChunkLoop(sents, k, size, ov, out, cur, cur_length) ==
    IF k > Len(sents)
    THEN IF EmitsLast(cur) THEN Append(out, JoinWithSpace(SentencesAt(sents, cur))) ELSE out
    ELSE LET sentence_length == WordCount(sents[k])
             seed == OverlapWords(sents, cur, ov)
         IN IF MustClose(cur_length, sentence_length, size, cur)
            THEN ChunkLoop(sents, k + 1, size, ov,
                           Append(out, JoinWithSpace(SentencesAt(sents, cur))),
                           Append(seed.words, k), seed.length + sentence_length)
            ELSE ChunkLoop(sents, k + 1, size, ov, out,
                           Append(cur, k), cur_length + sentence_length)

ChunkText(t, size, ov) == ChunkLoop(SplitSentences(t), 1, size, ov, <<>>, <<>>, 0)

\* The texts of the cases of a corpus.
CaseTexts ==
    { <<>>, <<"a", ".">>, <<"a", ".", " ", "a", ".">>,
      <<"a", " ", "a", ".", " ", "a", ".">> }

CaseRecords == [id : 0..MaxCases, title : Titles, text : CaseTexts]

DistinctIds(cs) == \A i, j \in 1..Len(cs) : i # j => cs[i].id # cs[j].id

\* A corpus of 2 * BatchSize cases, the first of two sentences and the others
\* of one: 2 * BatchSize + 1 chunks when chunk_size is 1, 2 * BatchSize otherwise.
LargeCorpus ==
    [i \in 1..(2 * BatchSize) |->
        [id |-> i - 1, title |-> "T0",
         text |-> IF i = 1 THEN <<"a", ".", " ", "a", ".">> ELSE <<"a", ".">>]]

Corpora == {cs \in SeqsUpTo(CaseRecords, MaxCases) : DistinctIds(cs)} \cup {LargeCorpus}

\* f"case_{case_id}_chunk_{chunk_idx}"
DocId(case_id, chunk_idx) == "case_" \o ToString(case_id) \o "_chunk_" \o ToString(chunk_idx)

\* The metadata dict of one chunk (citation, court, judge, decision_date and
\* year travel with title).
ChunkMetadata(case, chunk_idx) ==
    [case_id |-> ToString(case.id), title |-> case.title, chunk_index |-> ToString(chunk_idx)]

\* Variant of ItemsOfCase that numbers the chunks of every case with 0.
ItemsOfCaseSameIndex(case, size) ==
    LET cks == ChunkText(case.text, size, DefaultOverlap)
    IN [k \in 1..Len(cks) |->
           [document |-> cks[k],
            metadata |-> ChunkMetadata(case, 0),
            id |-> DocId(case.id, 0)]]

\* Lines 53-73 for one case: one (document, metadata, id) per chunk, chunk_idx
\* counting from 0.
ItemsOfCase(case, size) ==
    LET cks == ChunkText(case.text, size, DefaultOverlap)
    IN [k \in 1..Len(cks) |->
           [document |-> cks[k],
            metadata |-> ChunkMetadata(case, k - 1),
            id |-> DocId(case.id, k - 1)]]

\* xs[i:i+batch_size] for a 0-based i.
Slice(xs, i, n) == SubSeq(xs, i + 1, IF i + n <= Len(xs) THEN i + n ELSE Len(xs))

\* embed_texts: one vector per text, a function of the text.
EmbedText(t) == WordCount(t) % 2

EmbedTexts(ts) == [k \in 1..Len(ts) |-> EmbedText(ts[k])]

StoredIds(store) == {store[k].id : k \in 1..Len(store)}

\* The records a batch asks the collection to store.  The ids of one batch
\* are pairwise distinct.
BatchRecords(b_docs, b_embeddings, b_metas, b_ids, round) ==
    [k \in 1..Len(b_ids) |->
        [id |-> b_ids[k], document |-> b_docs[k],
         case_id |-> b_metas[k].case_id, title |-> b_metas[k].title,
         chunk_index |-> b_metas[k].chunk_index,
         vec |-> b_embeddings[k], added_by |-> round]]

\* collection.add: a record whose id the collection already holds is skipped
\* (the stored record is kept); the others are appended in order.
CollectionAdd(store, b_docs, b_embeddings, b_metas, b_ids, round) ==
    LET recs == BatchRecords(b_docs, b_embeddings, b_metas, b_ids, round)
        held == StoredIds(store)
    IN store \o SelectSeq(recs, LAMBDA r : r.id \notin held)

IndexInit ==
    /\ cases \in Corpora
    /\ index_chunk_size \in 1..MaxIndexChunkSize
    /\ documents = <<>>
    /\ metadatas = <<>>
    /\ ids = <<>>
    /\ case_i = 0
    /\ batch_i = 0
    /\ ipc = "idle"
    /\ index_round = 0
    /\ first_index = <<>>
    /\ ChunkIdle
    /\ ConcIdle
    /\ LoaderIdle
    /\ ServerIdle
    /\ client = FALSE
    /\ store_exists \in BOOLEAN
    /\ store_docs = <<>>
    /\ coll_loaded = FALSE
    /\ query = ""
    /\ pc = "idle"
    /\ state = <<>>
    /\ twin = <<>>
    /\ llm_calls = <<>>
    /\ llm_response = <<>>
    /\ retrieved_docs = <<>>
    /\ response = <<>>
    /\ store_calls = <<>>

\* Lines 44-51 of a call of index_cases (the first, or a repeated call with the
\* same corpus): the lazy create_collection, then the three empty lists.
IndexStart ==
    /\ ipc \in {"idle", "done"}
    /\ index_round < 2
    /\ EnsureCollection
    /\ store_calls' = store_calls \o EnsureCalls
    /\ documents' = <<>>
    /\ metadatas' = <<>>
    /\ ids' = <<>>
    /\ case_i' = 1
    /\ batch_i' = 0
    /\ ipc' = "running"
    /\ index_round' = index_round + 1
    /\ UNCHANGED <<cases, index_chunk_size, first_index>>
    /\ UNCHANGED <<client, query, pc, state, twin, llm_calls, llm_response,
                   retrieved_docs, response>>
    /\ UNCHANGED outsideIndex

\* Lines 53-73: one iteration of the loop over the cases.
IndexCase ==
    /\ ipc = "running"
    /\ case_i <= Len(cases)
    /\ LET items == ItemsOfCase(cases[case_i], index_chunk_size)
       IN /\ documents' = documents \o [k \in 1..Len(items) |-> items[k].document]
          /\ metadatas' = metadatas \o [k \in 1..Len(items) |-> items[k].metadata]
          /\ ids' = ids \o [k \in 1..Len(items) |-> items[k].id]
    /\ case_i' = case_i + 1
    /\ UNCHANGED <<cases, index_chunk_size, batch_i, ipc, index_round, first_index>>
    /\ UNCHANGED runVars
    /\ UNCHANGED outsideIndex

\* Lines 78-92: one iteration of the batch loop: slice, embed, add.
IndexBatch ==
    /\ ipc = "running"
    /\ case_i > Len(cases)
    /\ batch_i < Len(documents)
    /\ LET batch_docs == Slice(documents, batch_i, BatchSize)
           batch_metas == Slice(metadatas, batch_i, BatchSize)
           batch_ids == Slice(ids, batch_i, BatchSize)
           embeddings == EmbedTexts(batch_docs)
       IN /\ store_docs' = CollectionAdd(store_docs, batch_docs, embeddings, batch_metas,
                                         batch_ids, index_round)
          /\ store_calls' = store_calls \o
                << [op |-> "embed_texts", n |-> Len(batch_docs)],
                   [op |-> "add", n |-> Len(batch_ids)] >>
    /\ batch_i' = batch_i + BatchSize
    /\ UNCHANGED <<cases, index_chunk_size, documents, metadatas, ids, case_i, ipc,
                   index_round, first_index>>
    /\ UNCHANGED <<client, store_exists, coll_loaded, query, pc, state, twin, llm_calls,
                   llm_response, retrieved_docs, response>>
    /\ UNCHANGED outsideIndex

\* Line 94: the batch loop is exhausted and index_cases returns.
IndexFinish ==
    /\ ipc = "running"
    /\ case_i > Len(cases)
    /\ batch_i >= Len(documents)
    /\ ipc' = "done"
    /\ first_index' = IF index_round = 1 THEN store_docs ELSE first_index
    /\ UNCHANGED <<cases, index_chunk_size, documents, metadatas, ids, case_i, batch_i,
                   index_round>>
    /\ UNCHANGED runVars
    /\ UNCHANGED outsideIndex

IndexNext == IndexStart \/ IndexCase \/ IndexBatch \/ IndexFinish

IndexSpec == IndexInit /\ [][IndexNext]_vars

----------------------------------------------------------------------------
(* Two query runs on two threads over one VectorRetriever *)

MaxConcDocs == 1

Runs == {1, 2}

RunKinds == {"agentic", "direct"}

\* The completion the model gives to the query-analysis prompt of both runs.
ConcAnalysisCompletion == <<IssuesHeader, "- a", " - b ", KeywordsHeader, "- a">>

\* embed_text: the vector of a search string, a function of its words.
EmbedQuery(words) == Len(words) % 2

\* What the steps of the two runs leave alone among the variables of a single run.
concFrame == <<client, store_docs, query, pc, state, twin, llm_calls, llm_response,
               retrieved_docs, response, store_calls>>

outsideConc == <<chunkVars, indexVars, loaderVars, serverVars>>

ConcInit ==
    /\ client \in BOOLEAN
    /\ store_docs \in SeqsUpTo(Docs, MaxConcDocs)
    /\ store_exists \in BOOLEAN
    /\ store_docs # <<>> => store_exists
    /\ coll_loaded \in BOOLEAN
    /\ coll_loaded => store_exists
    /\ model_loaded \in BOOLEAN
    /\ query \in Queries
    /\ pc = "idle"
    /\ state = <<>>
    /\ twin = <<>>
    /\ llm_calls = <<>>
    /\ llm_response = <<>>
    /\ retrieved_docs = <<>>
    /\ response = <<>>
    /\ store_calls = <<>>
    /\ run_kind \in [Runs -> RunKinds]
    /\ run_pc = [r \in Runs |-> "idle"]
    /\ run_state = [r \in Runs |-> <<>>]
    /\ run_response = [r \in Runs |-> <<>>]
    /\ ChunkIdle
    /\ IndexIdle
    /\ LoaderIdle
    /\ ServerIdle

\* process_query is entered: the workflow builds initial_state and invokes the
\* graph; the direct path calls retrieve at once.
RunStart(r) ==
    /\ run_pc[r] = "idle"
    /\ IF run_kind[r] = "agentic"
       THEN /\ run_state' = [run_state EXCEPT ![r] = InitialState(query)]
            /\ run_pc' = [run_pc EXCEPT ![r] = EntryPoint]
       ELSE /\ run_state' = run_state
            /\ run_pc' = [run_pc EXCEPT ![r] = "check"]
    /\ UNCHANGED <<run_kind, run_response, model_loaded, store_exists, coll_loaded>>
    /\ UNCHANGED concFrame
    /\ UNCHANGED outsideConc

\* query_analysis_node; retrieval_node then calls retrieve.
RunQueryAnalysis(r) ==
    /\ run_pc[r] = "query_analysis"
    /\ run_state' = [run_state EXCEPT
                        ![r] = AnalysisNode(@, CallLlm(client, ConcAnalysisCompletion, FALSE))]
    /\ run_pc' = [run_pc EXCEPT ![r] = "check"]
    /\ UNCHANGED <<run_kind, run_response, model_loaded, store_exists, coll_loaded>>
    /\ UNCHANGED concFrame
    /\ UNCHANGED outsideConc

\* retrieve, line 101: `if self.collection is None`
RunCheck(r) ==
    /\ run_pc[r] = "check"
    /\ run_pc' = [run_pc EXCEPT ![r] = IF coll_loaded THEN "embed" ELSE "get"]
    /\ UNCHANGED <<run_kind, run_state, run_response, model_loaded, store_exists,
                   coll_loaded>>
    /\ UNCHANGED concFrame
    /\ UNCHANGED outsideConc

\* create_collection, lines 33-35: get_collection returns the handle, or raises
\* when the store does not hold the collection.
RunGet(r) ==
    /\ run_pc[r] = "get"
    /\ IF store_exists
       THEN /\ coll_loaded' = TRUE
            /\ run_pc' = [run_pc EXCEPT ![r] = "embed"]
       ELSE /\ coll_loaded' = coll_loaded
            /\ run_pc' = [run_pc EXCEPT ![r] = "create"]
    /\ UNCHANGED <<run_kind, run_state, run_response, model_loaded, store_exists>>
    /\ UNCHANGED concFrame
    /\ UNCHANGED outsideConc

\* create_collection, lines 36-41: the except branch calls create_collection on
\* the store, which raises when the collection exists by now; that exception
\* leaves retrieve, and process_query of the workflow turns it into the error
\* response while that of the direct path lets it through.
RunCreate(r) ==
    /\ run_pc[r] = "create"
    /\ IF ~store_exists
       THEN /\ store_exists' = TRUE
            /\ coll_loaded' = TRUE
            /\ run_pc' = [run_pc EXCEPT ![r] = "embed"]
            /\ run_response' = run_response
       ELSE /\ UNCHANGED <<store_exists, coll_loaded>>
            /\ IF run_kind[r] = "agentic"
               THEN /\ run_pc' = [run_pc EXCEPT ![r] = "failed"]
                    /\ run_response' = [run_response EXCEPT
                                           ![r] = <<ErrorResponse(query, run_state[r])>>]
               ELSE /\ run_pc' = [run_pc EXCEPT ![r] = "direct_raised"]
                    /\ run_response' = run_response
    /\ UNCHANGED <<run_kind, run_state, model_loaded>>
    /\ UNCHANGED concFrame
    /\ UNCHANGED outsideConc

\* embed_text, line 19: `if self.model is None`
RunEmbed(r) ==
    /\ run_pc[r] = "embed"
    /\ run_pc' = [run_pc EXCEPT ![r] = IF model_loaded THEN "query" ELSE "load"]
    /\ UNCHANGED <<run_kind, run_state, run_response, model_loaded, store_exists,
                   coll_loaded>>
    /\ UNCHANGED concFrame
    /\ UNCHANGED outsideConc

\* load_model: the model is loaded and kept.
RunLoad(r) ==
    /\ run_pc[r] = "load"
    /\ model_loaded' = TRUE
    /\ run_pc' = [run_pc EXCEPT ![r] = "query"]
    /\ UNCHANGED <<run_kind, run_state, run_response, store_exists, coll_loaded>>
    /\ UNCHANGED concFrame
    /\ UNCHANGED outsideConc

\* The search string retrieve is called with.
RunSearchQuery(r) ==
    IF run_kind[r] = "agentic" THEN SearchQuery(run_state[r]) ELSE <<query>>

\* model.encode and collection.query; retrieve returns.  The workflow's
\* retrieval_node stores the documents; the direct path goes on to its answer
\* and returns.
RunQuery(r) ==
    /\ run_pc[r] = "query"
    /\ IF run_kind[r] = "agentic"
       THEN LET docs == Retrieve(store_docs, EmbedQuery(RunSearchQuery(r)), TopKWorkflow)
            IN /\ run_state' = [run_state EXCEPT ![r] = RetrievalNode(@, docs)]
               /\ run_pc' = [run_pc EXCEPT ![r] = NextNode("retrieval")]
               /\ run_response' = run_response
       ELSE LET docs == Retrieve(store_docs, EmbedQuery(RunSearchQuery(r)), TopKDirect)
            IN /\ run_state' = run_state
               /\ run_pc' = [run_pc EXCEPT ![r] = "direct_done"]
               /\ run_response' = [run_response EXCEPT
                     ![r] = <<DirectResponse(query, docs,
                                 GenerateResponse(client, AnalystCompletion, FALSE))>>]
    /\ UNCHANGED <<run_kind, model_loaded, store_exists, coll_loaded>>
    /\ UNCHANGED concFrame
    /\ UNCHANGED outsideConc

\* summarizer_node
RunSummarizer(r) ==
    /\ run_pc[r] = "summarizer"
    /\ LET n == Len(FirstN(run_state[r].retrieved_cases, MaxSummarized))
       IN run_state' = [run_state EXCEPT
             ![r] = SummarizerNode(@, [i \in 1..n |-> CallLlm(client, SummaryCompletion, FALSE)])]
    /\ run_pc' = [run_pc EXCEPT ![r] = NextNode("summarizer")]
    /\ UNCHANGED <<run_kind, run_response, model_loaded, store_exists, coll_loaded>>
    /\ UNCHANGED concFrame
    /\ UNCHANGED outsideConc

\* legal_analyst_node and the return of process_query.
RunLegalAnalyst(r) ==
    /\ run_pc[r] = "legal_analyst"
    /\ LET final_state == AnalystNode(run_state[r], CallLlm(client, AnalystCompletion, FALSE))
       IN /\ run_state' = [run_state EXCEPT ![r] = final_state]
          /\ run_response' = [run_response EXCEPT ![r] = <<WorkflowResponse(query, final_state)>>]
    /\ run_pc' = [run_pc EXCEPT ![r] = NextNode("legal_analyst")]
    /\ UNCHANGED <<run_kind, model_loaded, store_exists, coll_loaded>>
    /\ UNCHANGED concFrame
    /\ UNCHANGED outsideConc

ConcNext ==
    \E r \in Runs :
        \/ RunStart(r)
        \/ RunQueryAnalysis(r)
        \/ RunCheck(r)
        \/ RunGet(r)
        \/ RunCreate(r)
        \/ RunEmbed(r)
        \/ RunLoad(r)
        \/ RunQuery(r)
        \/ RunSummarizer(r)
        \/ RunLegalAnalyst(r)

ConcSpec == ConcInit /\ [][ConcNext]_vars

----------------------------------------------------------------------------
(* DataLoader: preprocess_data, get_all_cases, get_case_by_id *)

MaxRows == 3

\* A missing value (None / NaN) of the title column and of the text column.
NaTitle == "<NA>"
NaText == <<"<NA>">>

RawRows == [title : {NaTitle, "T0"}, text : {NaText, <<"a", ".">>}]

\* read_parquet: the rows under the default index, labels 0..n-1.
ReadParquet(rows) ==
    [k \in 1..Len(rows) |-> [label |-> k - 1, title |-> rows[k].title, text |-> rows[k].text]]

\* df.dropna(subset=['text']): the rows with a text, each keeping its label.
DropNaText(frame) == SelectSeq(frame, LAMBDA row : row.text # NaText)

\* df.fillna({'title': 'Untitled Case', ...})
FillNa(frame) ==
    [k \in 1..Len(frame) |->
        [frame[k] EXCEPT !.title = IF @ = NaTitle THEN "Untitled Case" ELSE @]]

\* preprocess_data on the rows load_data read.
PreprocessData(rows) == FillNa(DropNaText(ReadParquet(rows)))

\* get_all_cases: one dict per row of iterrows(), its id the index label.
GetAllCases(frame) ==
    [k \in 1..Len(frame) |->
        [id |-> frame[k].label, title |-> frame[k].title, text |-> frame[k].text]]

\* get_case_by_id: ValueError outside 0..len-1, else the row at that position (iloc).
GetCaseById(frame, case_id) ==
    IF case_id < 0 \/ case_id >= Len(frame)
    THEN [raised |-> TRUE, id |-> case_id, title |-> "", text |-> <<>>]
    ELSE [raised |-> FALSE, id |-> case_id, title |-> frame[case_id + 1].title,
          text |-> frame[case_id + 1].text]

\* `if self.df is None: self.preprocess_data()`
EnsureFrame == IF df = <<>> THEN <<PreprocessData(raw_rows)>> ELSE df

outsideLoader == <<chunkVars, runVars, indexVars, concVars, serverVars>>

LoaderInit ==
    /\ raw_rows \in SeqsUpTo(RawRows, MaxRows)
    /\ df = <<>>
    /\ all_cases = <<>>
    /\ lookup_id = 0
    /\ lookup = <<>>
    /\ ChunkIdle
    /\ RunIdle
    /\ IndexIdle
    /\ ConcIdle
    /\ ServerIdle

\* A call of get_all_cases.
GetAllCasesCall ==
    /\ df' = EnsureFrame
    /\ all_cases' = <<GetAllCases(df'[1])>>
    /\ UNCHANGED <<raw_rows, lookup_id, lookup>>
    /\ UNCHANGED outsideLoader

\* A call of get_case_by_id(case_id).
GetCaseByIdCall ==
    \E case_id \in (0 - 1)..MaxRows :
        /\ df' = EnsureFrame
        /\ lookup_id' = case_id
        /\ lookup' = <<GetCaseById(df'[1], case_id)>>
        /\ UNCHANGED <<raw_rows, all_cases>>
        /\ UNCHANGED outsideLoader

LoaderNext == GetAllCasesCall \/ GetCaseByIdCall

LoaderSpec == LoaderInit /\ [][LoaderNext]_vars

----------------------------------------------------------------------------
(* The request layer (main.py): startup_event and the handlers.  The handlers
   are coroutines without an await in their bodies, so each runs to its end
   before the next request is taken up. *)

MaxRequests == 3
MaxServerRows == 1

ServerChunkSize == 1024

\* A collection left in the store by an earlier process.
PersistedDoc ==
    [id |-> "case_0_chunk_0", document |-> <<"a", ".">>, case_id |-> "0", title |-> "T0",
     chunk_index |-> "0", vec |-> 1, added_by |-> 0]

\* The items index_cases builds for a corpus, in corpus order.
RECURSIVE AllItems(_, _)
AllItems(cs, size) ==
    IF cs = <<>> THEN <<>>
    ELSE ItemsOfCase(Head(cs), size) \o AllItems(Tail(cs), size)

\* index_cases on a corpus of at most BatchSize chunks: one batch.
IndexedStore(store, cs, size, round) ==
    LET items == AllItems(cs, size)
        docs == [k \in 1..Len(items) |-> items[k].document]
    IN CollectionAdd(store, docs, EmbedTexts(docs),
                     [k \in 1..Len(items) |-> items[k].metadata],
                     [k \in 1..Len(items) |-> items[k].id], round)

\* Variant of QueryGate that only looks at the API key.
QueryGateKeyOnly(initialized, has_key) ==
    IF ~has_key THEN 503 ELSE 0

\* Lines 158-168 of process_legal_query: the status the request is rejected
\* with, 0 when it is let through.
QueryGate(initialized, has_key) ==
    IF ~initialized THEN 503
    ELSE IF ~has_key THEN 503
    ELSE 0

outsideServer == <<chunkVars, indexVars, concVars>>

\* What the handlers leave alone among the variables of a single query run.
serverFrame == <<client, query, pc, state, twin, llm_calls, llm_response, retrieved_docs,
                 response, store_calls>>

ServerInit ==
    /\ system_initialized = FALSE
    /\ spc = "boot"
    /\ requests = <<>>
    /\ client \in BOOLEAN
    /\ store_exists \in BOOLEAN
    /\ store_docs \in {<<>>, <<PersistedDoc>>}
    /\ store_docs # <<>> => store_exists
    /\ coll_loaded = FALSE
    /\ query \in Queries
    /\ pc = "idle"
    /\ state = <<>>
    /\ twin = <<>>
    /\ llm_calls = <<>>
    /\ llm_response = <<>>
    /\ retrieved_docs = <<>>
    /\ response = <<>>
    /\ store_calls = <<>>
    /\ raw_rows \in SeqsUpTo(RawRows, MaxServerRows)
    /\ df = <<>>
    /\ all_cases = <<>>
    /\ lookup_id = 0
    /\ lookup = <<>>
    /\ ChunkIdle
    /\ IndexIdle
    /\ ConcIdle

\* startup_event: the components are built; the system is marked initialized
\* when the collection exists and get_collection_count() is not 0 (that call
\* loads the collection handle).  When it raises, the process does not serve.
Startup ==
    /\ spc = "boot"
    /\ \E raises \in BOOLEAN :
          IF raises
          THEN /\ spc' = "crashed"
               /\ UNCHANGED <<system_initialized, coll_loaded>>
          ELSE /\ spc' = "serving"
               /\ coll_loaded' = store_exists
               /\ system_initialized' = (store_exists /\ Len(store_docs) # 0)
    /\ UNCHANGED <<requests, store_exists, store_docs>>
    /\ UNCHANGED serverFrame
    /\ UNCHANGED loaderVars
    /\ UNCHANGED outsideServer

\* GET /status: get_collection_count loads (or creates) the collection.
StatusRequest ==
    /\ spc = "serving"
    /\ Len(requests) < MaxRequests
    /\ EnsureCollection
    /\ requests' = Append(requests, [endpoint |-> "status", status |-> 200, invoked |-> "none"])
    /\ UNCHANGED system_initialized
    /\ UNCHANGED spc
    /\ UNCHANGED serverFrame
    /\ UNCHANGED loaderVars
    /\ UNCHANGED outsideServer

\* POST /api/v1/index: get_all_cases, index_cases(cases, chunk_size=1024), then
\* system_initialized = True; any exception on the way is answered with 500 and
\* leaves system_initialized as it was.
IndexRequest ==
    /\ spc = "serving"
    /\ Len(requests) < MaxRequests
    /\ \E fails \in {"none", "load_data", "embed_texts"} :
          IF fails = "load_data"
          THEN /\ df = <<>>
               /\ requests' = Append(requests,
                                [endpoint |-> "index", status |-> 500, invoked |-> "none"])
               /\ UNCHANGED <<system_initialized, store_exists, store_docs, coll_loaded,
                              df, all_cases>>
          ELSE /\ df' = EnsureFrame
               /\ all_cases' = <<GetAllCases(df'[1])>>
               /\ coll_loaded' = TRUE
               /\ store_exists' = TRUE
               /\ IF fails = "embed_texts"
                  THEN /\ AllItems(all_cases'[1], ServerChunkSize) # <<>>
                       /\ store_docs' = store_docs
                       /\ requests' = Append(requests,
                                [endpoint |-> "index", status |-> 500, invoked |-> "none"])
                       /\ UNCHANGED system_initialized
                  ELSE /\ store_docs' = IndexedStore(store_docs, all_cases'[1],
                                                     ServerChunkSize, Len(requests) + 1)
                       /\ requests' = Append(requests,
                                [endpoint |-> "index", status |-> 200, invoked |-> "none"])
                       /\ system_initialized' = TRUE
    /\ UNCHANGED spc
    /\ UNCHANGED <<raw_rows, lookup_id, lookup>>
    /\ UNCHANGED serverFrame
    /\ UNCHANGED outsideServer

\* POST /api/v1/legal-query: rejected with 503 while the system is not
\* initialized or has no API key; otherwise legal_workflow.process_query or
\* rag_agent.process_query runs (its retrieve loads the collection handle) and
\* the answer is 200, or 500 when the call or the response model raised.
LegalQueryRequest ==
    /\ spc = "serving"
    /\ Len(requests) < MaxRequests
    /\ \E use_agentic \in BOOLEAN, raises \in BOOLEAN :
          LET gate == QueryGate(system_initialized, client)
          IN IF gate # 0
             THEN /\ ~raises
                  /\ requests' = Append(requests,
                        [endpoint |-> "legal-query", status |-> gate, invoked |-> "none"])
                  /\ UNCHANGED <<store_exists, store_docs, coll_loaded>>
             ELSE /\ requests' = Append(requests,
                        [endpoint |-> "legal-query",
                         status |-> IF raises THEN 500 ELSE 200,
                         invoked |-> IF use_agentic THEN "workflow" ELSE "direct"])
                  /\ EnsureCollection
    /\ UNCHANGED system_initialized
    /\ UNCHANGED spc
    /\ UNCHANGED serverFrame
    /\ UNCHANGED loaderVars
    /\ UNCHANGED outsideServer

ServerNext == Startup \/ StatusRequest \/ IndexRequest \/ LegalQueryRequest

ServerSpec == ServerInit /\ [][ServerNext]_vars

----------------------------------------------------------------------------
(* Properties of chunk_text *)

\* The sentences an emitted chunk adds beyond its seeded overlap prefix.
NewPart(part) == SubSeq(part.sents, part.seed + 1, Len(part.sents))

\* The seeded overlap prefix of an emitted chunk.
SeedPart(part) == SubSeq(part.sents, 1, part.seed)

RECURSIVE ConcatNewParts(_)
ConcatNewParts(parts) ==
    IF parts = <<>> THEN <<>>
    ELSE NewPart(parts[1]) \o ConcatNewParts(Tail(parts))

IsSuffix(s, t) ==
    Len(s) <= Len(t) /\ SubSeq(t, Len(t) - Len(s) + 1, Len(t)) = s

\* Total word count of the sentences at the positions idxs.
RECURSIVE WordsOf(_, _)
WordsOf(sents, idxs) ==
    IF idxs = <<>> THEN 0
    ELSE WordCount(sents[Head(idxs)]) + WordsOf(sents, Tail(idxs))

\* Every emitted chunk string is the single-space join of its whole sentences.
ChunksAreWholeSentences ==
    /\ Len(chunks) = Len(chunk_parts)
    /\ \A k \in 1..Len(chunks) :
          chunks[k] = JoinWithSpace(SentencesAt(sentences, chunk_parts[k].sents))

\* C1: chunk coverage.  When chunk_text returns, the sentences the chunks add
\* beyond their seeded overlap prefixes are, concatenated in chunk order,
\* exactly s1..sn (every sentence once, no gap, no reordering), and the seeded
\* prefix of every chunk after the first is, sentence for sentence and as a
\* string, a suffix of the chunk emitted just before it.
C1_ChunkCoverage ==
    cpc = "done" =>
        /\ ChunksAreWholeSentences
        /\ ConcatNewParts(chunk_parts) = [i \in 1..Len(sentences) |-> i]
        /\ chunk_parts # <<>> => chunk_parts[1].seed = 0
        /\ \A k \in 2..Len(chunk_parts) :
              /\ IsSuffix(SeedPart(chunk_parts[k]), chunk_parts[k - 1].sents)
              /\ chunk_parts[k].seed > 0 =>
                    IsSuffix(JoinWithSpace(SentencesAt(sentences, SeedPart(chunk_parts[k]))),
                             chunks[k - 1])

\* C1 witness: a finished run with three chunks, one of them seeded with two sentences.
C1_Witness ==
    /\ cpc = "done"
    /\ Len(chunk_parts) >= 3
    /\ \E k \in 1..Len(chunk_parts) : chunk_parts[k].seed >= 2

\* C2: chunk budget.  Every emitted chunk that is not the last chunk of the
\* finished run adds at most chunk_size words of its own, unless what it adds is
\* one single sentence of more than chunk_size words; every chunk is made of
\* whole sentences (no sentence is split or truncated).
C2_ChunkBudget ==
    /\ ChunksAreWholeSentences
    /\ \A k \in 1..Len(chunk_parts) :
          \/ cpc = "done" /\ k = Len(chunk_parts)
          \/ WordsOf(sentences, NewPart(chunk_parts[k])) <= chunk_size
          \/ /\ Len(NewPart(chunk_parts[k])) = 1
             /\ WordCount(sentences[NewPart(chunk_parts[k])[1]]) > chunk_size

\* C2 witness: a closed chunk whose own content is one sentence longer than
\* chunk_size, after a chunk that stayed within the budget.
C2_Witness ==
    /\ Len(chunk_parts) >= 3
    /\ \E k \in 2..(Len(chunk_parts) - 1) :
          /\ Len(NewPart(chunk_parts[k])) = 1
          /\ WordCount(sentences[NewPart(chunk_parts[k])[1]]) > chunk_size
          /\ chunk_parts[k].seed > 0

\* The longest trailing run of the closed chunk whose word count fits the overlap.
LongestTail(prev, ov) ==
    LET fits == {j \in 0..Len(prev) :
                    WordsOf(sentences, SubSeq(prev, Len(prev) - j + 1, Len(prev))) <= ov}
        m == CHOOSE j \in fits : \A i \in fits : i <= j
    IN SubSeq(prev, Len(prev) - m + 1, Len(prev))

ExampleChunks ==
    << <<"A", ".", " ", "B", ".">>, <<"B", ".", " ", "C", ".">>, <<"C", ".", " ", "D", ".">> >>

\* C3: overlap seeding.  Whenever a chunk has been closed, the chunk opened
\* after it starts with exactly the longest trailing run of whole sentences of
\* the closed chunk whose total word count is at most overlap, in original
\* order, followed by the sentence that triggered the close; and
\* chunk("A. B. C. D.", 2, 1) returns ["A. B.", "B. C.", "C. D."].
C3_OverlapSeeding ==
    /\ \A k \in 2..Len(chunk_parts) :
          LET prev == chunk_parts[k - 1].sents
              cur == chunk_parts[k]
          IN /\ SeedPart(cur) = LongestTail(prev, overlap)
             /\ Len(cur.sents) > cur.seed
             /\ cur.sents[cur.seed + 1] = prev[Len(prev)] + 1
    /\ (cpc = "loop" /\ chunk_parts # <<>>) =>
          LET prev == chunk_parts[Len(chunk_parts)].sents
          IN /\ SubSeq(current_chunk, 1, seed_len) = LongestTail(prev, overlap)
             /\ Len(current_chunk) > seed_len
             /\ current_chunk[seed_len + 1] = prev[Len(prev)] + 1
    /\ (cpc = "done" /\ text = ExampleText /\ chunk_size = 2 /\ overlap = 1) =>
          chunks = ExampleChunks

\* C3 witness: the example run has returned its three chunks.
C3_Witness ==
    /\ cpc = "done" /\ text = ExampleText /\ chunk_size = 2 /\ overlap = 1
    /\ Len(chunks) = 3
    /\ chunk_parts[2].seed = 1

\* C4: chunk_text on the empty text returns the empty sequence of chunks, for
\* every chunk_size and overlap.
C4_EmptyTextNoChunks ==
    (cpc = "done" /\ text = <<>>) => chunks = <<>>

----------------------------------------------------------------------------
(* Properties of a query run *)

StageNotes == <<NoteAnalysis, NoteRetrieval, NoteSummarizer, NoteAnalyst>>

\* How many nodes have appended their trace note when control is at pc.
NotesAt(p) ==
    CASE p = "query_analysis" -> 0
      [] p = "retrieval" -> 1
      [] p = "summarizer" -> 2
      [] p = "legal_analyst" -> 3
      [] p = "done" -> 4
      [] p = "failed" -> 2

StageEdges ==
    { <<"idle", "query_analysis">>, <<"query_analysis", "retrieval">>,
      <<"retrieval", "summarizer">>, <<"summarizer", "legal_analyst">>,
      <<"legal_analyst", "done">>, <<"retrieval", "failed">>,
      <<"idle", "direct_done">>, <<"idle", "direct_raised">> }

InWorkflow == pc \in {"query_analysis", "retrieval", "summarizer", "legal_analyst", "done", "failed"}

\* C5: the stages of a workflow run execute in the fixed order QueryAnalysis,
\* Retrieval, Summarization, Synthesis, Done: every step moves control along
\* one edge of that line (so no stage runs twice and none is skipped), the
\* trace holds, at every stage, exactly the notes of the stages completed
\* before it, and a run that reaches Done has the four notes in stage order in
\* its state and in its response.
C5_StageOrder ==
    /\ [][pc' # pc /\ <<pc, pc'>> \in StageEdges]_vars
    /\ [](InWorkflow => state.reasoning_steps = SubSeq(StageNotes, 1, NotesAt(pc)))
    /\ [](pc = "done" => /\ Len(response) = 1
                         /\ response[1].reasoning_steps = StageNotes)

\* C5 witness: a run at Done with its four notes.
C5_Witness ==
    /\ pc = "done"
    /\ Len(state.reasoning_steps) = 4
    /\ Len(state.retrieved_cases) >= 2

\* The section a line at position i falls under: that of the last header line before it.
HeaderKind(line) ==
    IF HasIssuesHeader(Strip(line)) THEN "issues"
    ELSE IF HasKeywordsHeader(Strip(line)) THEN "keywords"
    ELSE "none"

SectionAt(resp, i) ==
    LET hs == {j \in 1..(i - 1) : HeaderKind(resp[j]) # "none"}
    IN IF hs = {} THEN "none"
       ELSE HeaderKind(resp[CHOOSE j \in hs : \A h \in hs : h <= j])

\* The dash items of resp under the header of `section`, in line order.
ItemsUnder(resp, section) ==
    LET at == SelectSeq([i \in 1..Len(resp) |-> i],
                        LAMBDA i : /\ HeaderKind(resp[i]) = "none"
                                   /\ StartsWithDash(Strip(resp[i]))
                                   /\ SectionAt(resp, i) = section)
    IN [k \in 1..Len(at) |-> DashItem(Strip(resp[at[k]]))]

\* C6: after the QueryAnalysis stage, whatever text the language-model call
\* gave back (a completion, the error text or the empty text), legal_issues
\* and keywords are non-empty; each is [query] when no dash line was collected
\* under its header and otherwise the dash items under that header in line
\* order (dash lines before any header go to neither list).
C6_AnalysisFallback ==
    pc = "retrieval" =>
        /\ state.legal_issues # <<>>
        /\ state.keywords # <<>>
        /\ state.legal_issues =
              (IF ItemsUnder(llm_response, "issues") = <<>> THEN <<query>>
               ELSE ItemsUnder(llm_response, "issues"))
        /\ state.keywords =
              (IF ItemsUnder(llm_response, "keywords") = <<>> THEN <<query>>
               ELSE ItemsUnder(llm_response, "keywords"))

\* C6 witness: a response with two keyword items and no issue item; issues fell back.
C6_Witness ==
    /\ pc = "retrieval"
    /\ state.legal_issues = <<query>>
    /\ state.keywords = <<"a", "b">>

\* The positions of the chunks that are the first of their case in ranked order.
FirstPositions(docs) ==
    {i \in 1..Len(docs) :
        \A j \in 1..(i - 1) : docs[j].metadata.case_id # docs[i].metadata.case_id}

\* related is the case-level deduplication of docs.
IsDedupOf(related, docs) ==
    LET firsts == FirstPositions(docs)
    IN /\ Len(related) = Cardinality({docs[i].metadata.case_id : i \in 1..Len(docs)})
       /\ \A i \in firsts :
             LET k == Cardinality({j \in firsts : j <= i})
             IN related[k] = [title |-> docs[i].metadata.title]

\* C7: in the workflow's Retrieval stage and in the direct path, related_cases
\* holds exactly one entry per distinct case_id of the retrieved chunks, built
\* from the first chunk of that case in ranked order, in order of first
\* appearance; the response carries that list.
C7_RelatedCasesDedup ==
    /\ pc \in {"summarizer", "legal_analyst", "done"} =>
          IsDedupOf(state.related_cases, state.retrieved_cases)
    /\ pc = "done" => response[1].related_cases = state.related_cases
    /\ pc = "direct_done" => IsDedupOf(response[1].related_cases, retrieved_docs)

\* C7 witness: three ranked chunks, the first and the last of one case with
\* different titles, deduplicated to two entries.
C7_Witness ==
    /\ pc = "done"
    /\ Len(state.retrieved_cases) = 3
    /\ state.retrieved_cases[1].metadata.case_id = state.retrieved_cases[3].metadata.case_id
    /\ state.retrieved_cases[1].metadata.case_id # state.retrieved_cases[2].metadata.case_id
    /\ state.retrieved_cases[1].metadata.title # state.retrieved_cases[3].metadata.title
    /\ Len(response[1].related_cases) = 2

\* C8: when a stage raises, process_query returns a response whose answer
\* describes the error and whose related_cases, legal_issues, reasoning_steps
\* and processing_info are empty, whatever the stages that ran had written.
C8_FailureAllOrNothing ==
    pc = "failed" =>
        /\ Len(response) = 1
        /\ response[1].query = query
        /\ response[1].answer = <<"Error processing query: e">>
        /\ response[1].related_cases = <<>>
        /\ response[1].legal_issues = <<>>
        /\ response[1].reasoning_steps = <<>>
        /\ response[1].processing_info = {}

\* C8 witness: retrieval raised after QueryAnalysis had written its note and its lists.
C8_Witness ==
    /\ pc = "failed"
    /\ state.reasoning_steps # <<>>
    /\ state.legal_issues = <<"a", "b">>

\* The requests of the run that raised.
FailedCalls == {i \in 1..Len(llm_calls) : ~llm_calls[i].ok}

OneCallFailed == pc = "done" /\ Cardinality(FailedCalls) = 1

FailedCall == CHOOSE i \in FailedCalls : TRUE

FailedStage == llm_calls[FailedCall].stage

\* The run completed its four stages and returned the structured response.
CompletedStructured ==
    /\ state.reasoning_steps = StageNotes
    /\ response = <<WorkflowResponse(query, state)>>
    /\ response[1].processing_info # {}

SameAnalysisOutput == state.legal_issues = twin.legal_issues /\ state.keywords = twin.keywords

SameRetrievalOutput ==
    state.retrieved_cases = twin.retrieved_cases /\ state.related_cases = twin.related_cases

SameSynthesisOutput ==
    state.legal_analysis = twin.legal_analysis /\ state.final_answer = twin.final_answer

\* The summaries other than the k-th are those of the twin run; the k-th is the
\* bracketed title followed by the error text.
SummariesDegradedAt(k) ==
    /\ Len(state.case_summaries) = Len(twin.case_summaries)
    /\ k \in 1..Len(state.case_summaries)
    /\ \A i \in 1..Len(state.case_summaries) :
          IF i = k
          THEN state.case_summaries[i] =
                  <<"[", state.retrieved_cases[i].metadata.title, "]: ">> \o LlmErrorText
          ELSE state.case_summaries[i] = twin.case_summaries[i]

\* C9 as stated: when exactly one language-model call of a run raises, the run
\* completes its four stages and returns the structured response, the failed
\* stage's output is the error string and every other stage's output is the
\* same as in the run where that call had succeeded.
C9_OtherStagesIntact ==
    OneCallFailed =>
        /\ CompletedStructured
        /\ FailedStage = "query_analysis" =>
              /\ llm_response = LlmErrorText
              /\ SameRetrievalOutput
              /\ state.case_summaries = twin.case_summaries
              /\ SameSynthesisOutput
        /\ FailedStage = "summarizer" =>
              /\ SameAnalysisOutput /\ SameRetrievalOutput /\ SameSynthesisOutput
              /\ SummariesDegradedAt(FailedCall - 1)
        /\ FailedStage = "legal_analyst" =>
              /\ SameAnalysisOutput /\ SameRetrievalOutput
              /\ state.case_summaries = twin.case_summaries
              /\ state.final_answer = LlmErrorText

\* C9, amended: when exactly one language-model call of a run raises, the run
\* completes its four stages and returns the structured response.  A failed
\* Summarization call leaves the error string as that chunk's summary and a
\* failed Synthesis call leaves it as legal_analysis and final_answer, and the
\* outputs of every other stage are those of the run where the call had
\* succeeded.  A failed QueryAnalysis call has its error string parsed like any
\* response: legal_issues and keywords are [query], and Retrieval and
\* Summarization work from that search string (their outputs may differ from
\* the run where the call had succeeded); each summary is then a completion,
\* not an error string, and the Synthesis text is the completion.
C9_DegradedNotFatal ==
    OneCallFailed =>
        /\ CompletedStructured
        /\ FailedStage = "query_analysis" =>
              /\ llm_response = LlmErrorText
              /\ state.legal_issues = <<query>>
              /\ state.keywords = <<query>>
              /\ Len(state.case_summaries) = Len(FirstN(state.retrieved_cases, MaxSummarized))
              /\ \A i \in 1..Len(state.case_summaries) :
                    state.case_summaries[i] =
                       <<"[", state.retrieved_cases[i].metadata.title, "]: ">> \o SummaryCompletion
              /\ SameSynthesisOutput
        /\ FailedStage = "summarizer" =>
              /\ SameAnalysisOutput /\ SameRetrievalOutput /\ SameSynthesisOutput
              /\ SummariesDegradedAt(FailedCall - 1)
        /\ FailedStage = "legal_analyst" =>
              /\ SameAnalysisOutput /\ SameRetrievalOutput
              /\ state.case_summaries = twin.case_summaries
              /\ state.final_answer = LlmErrorText
              /\ state.legal_analysis = LlmErrorText

\* C9 witness: the second of three summarization calls raised, nothing else did.
C9_Witness ==
    /\ OneCallFailed
    /\ FailedStage = "summarizer"
    /\ FailedCall = 3
    /\ Len(state.case_summaries) = 3

\* C10: a call of either path returns a well-formed response object and lets
\* no failure escape to its caller, whatever the collaborators do.
C10_AlwaysAResponse ==
    /\ pc # "direct_raised"
    /\ pc \in {"done", "failed", "direct_done"} =>
          /\ Len(response) = 1
          /\ response[1].query = query
          /\ response[1].answer # <<>>

----------------------------------------------------------------------------
(* Properties of the retriever over an absent collection *)

\* The calls of the log with the given operation name.
CallsOf(op) == {i \in 1..Len(store_calls) : store_calls[i].op = op}

\* create_collection took its except branch: the collection was absent.
CollectionWasAbsent == CallsOf("create_collection") # {}

\* C11: retrieve on an absent collection is not an error.  The collection is
\* created empty, so after the call it exists with count 0; retrieve returns
\* the empty sequence; a direct-path run that returns has related_cases = []
\* and an answer, and a workflow run carries no retrieved or related case.
C11_AbsentCollectionIsEmpty ==
    CollectionWasAbsent =>
        /\ store_exists /\ coll_loaded
        /\ Len(store_docs) = 0
        /\ pc = "direct_done" =>
              /\ retrieved_docs = <<>>
              /\ Len(response) = 1
              /\ response[1].related_cases = <<>>
              /\ response[1].answer # <<>>
        /\ pc \in {"summarizer", "legal_analyst", "done"} =>
              /\ state.retrieved_cases = <<>>
              /\ state.related_cases = <<>>

\* C11 witness: a direct-path run over an absent collection has returned.
C11_Witness ==
    /\ CollectionWasAbsent
    /\ pc = "direct_done"
    /\ store_exists
    /\ response[1].related_cases = <<>>

----------------------------------------------------------------------------
(* Properties of index_cases *)

\* The stored record of the collection `store` under the id `id`.
RecordOf(store, id) == store[CHOOSE k \in 1..Len(store) : store[k].id = id]

\* What a record holds apart from the call that stored it.
ContentOf(rec) ==
    [id |-> rec.id, document |-> rec.document, case_id |-> rec.case_id,
     title |-> rec.title, chunk_index |-> rec.chunk_index, vec |-> rec.vec]

SecondCallReturned == ipc = "done" /\ index_round = 2

\* C12: index_cases called a second time with the same corpus completes, the
\* index then holds the same set of ids, with the same documents and metadata
\* and the same count, as after the first call, and every colliding id was
\* resolved as an overwrite: its stored record is the one the second call wrote.
C12_ReindexOverwrites ==
    SecondCallReturned =>
        /\ StoredIds(store_docs) = StoredIds(first_index)
        /\ Len(store_docs) = Len(first_index)
        /\ \A k \in 1..Len(store_docs) :
              ContentOf(store_docs[k]) = ContentOf(RecordOf(first_index, store_docs[k].id))
        /\ \A k \in 1..Len(ids) :
              /\ ids[k] \in StoredIds(store_docs)
              /\ RecordOf(store_docs, ids[k]).added_by = 2

\* The chunks the Chunker produces for each case the loop has passed.
ChunksOfCases ==
    [p \in 1..(case_i - 1) |-> ChunkText(cases[p].text, index_chunk_size, DefaultOverlap)]

\* (case position, chunk index) of every chunk of cks.
ChunkPairsOf(cks) ==
    UNION { {<<p, j>> : j \in 0..(Len(cks[p]) - 1)} : p \in 1..Len(cks) }

\* How many chunks the cases before position p have.
OffsetsOf(cks, pairs) ==
    [p \in 1..Len(cks) |-> Cardinality({q \in pairs : q[1] < p})]

\* The three lists hold one item per chunk, in corpus order (chunk j of case p
\* at place offset(p) + j + 1), under the composite id.
ListsAreTheChunks ==
    LET cks == ChunksOfCases
        pairs == ChunkPairsOf(cks)
        offset == OffsetsOf(cks, pairs)
    IN /\ Len(ids) = Cardinality(pairs)
       /\ Len(documents) = Len(ids) /\ Len(metadatas) = Len(ids)
       /\ \A q \in pairs :
             LET k == offset[q[1]] + q[2] + 1
                 case == cases[q[1]]
             IN /\ ids[k] = "case_" \o ToString(case.id) \o "_chunk_" \o ToString(q[2])
                /\ documents[k] = cks[q[1]][q[2] + 1]
                /\ metadatas[k].case_id = ToString(case.id)
                /\ metadatas[k].chunk_index = ToString(q[2])
                /\ metadatas[k].title = case.title
       /\ Cardinality({ids[k] : k \in 1..Len(ids)}) = Len(ids)

\* How many items the batch loop has passed.
Written == IF batch_i <= Len(ids) THEN batch_i ELSE Len(ids)

\* The collection holds exactly the items the batch loop has passed, in order.
StoreIsThePassedItems ==
    /\ Len(store_docs) = Written
    /\ \A k \in 1..Len(store_docs) :
          /\ store_docs[k].id = ids[k]
          /\ store_docs[k].document = documents[k]
          /\ store_docs[k].case_id = metadatas[k].case_id
          /\ store_docs[k].chunk_index = metadatas[k].chunk_index
          /\ store_docs[k].title = metadatas[k].title

\* The positions of the add calls in the log, and the m-th of them.
AddCalls == CallsOf("add")

NthAdd(m) == CHOOSE i \in AddCalls : Cardinality({j \in AddCalls : j <= i}) = m

\* The batches are consecutive slices of at most BatchSize items, each embedded
\* just before it is written.
BatchesAreConsecutive ==
    /\ Cardinality(AddCalls) * BatchSize = batch_i
    /\ \A i \in AddCalls :
          /\ i > 1
          /\ store_calls[i - 1] = [op |-> "embed_texts", n |-> store_calls[i].n]
          /\ store_calls[i].n >= 1
          /\ store_calls[i].n <= BatchSize
    /\ \A m \in 1..Cardinality(AddCalls) :
          LET rest == Len(ids) - (m - 1) * BatchSize
          IN store_calls[NthAdd(m)].n = (IF rest <= BatchSize THEN rest ELSE BatchSize)
    /\ Cardinality(CallsOf("embed_texts")) = Cardinality(AddCalls)

\* C17: one index_cases call, on an empty collection, for a corpus with pairwise
\* distinct case ids: one item per chunk the Chunker produces, under the id
\* case_{caseId}_chunk_{chunkIndex} with chunkIndex 0,1,2,... within each case,
\* all ids pairwise distinct; the items are written in corpus order in
\* consecutive batches of at most 100, every item in exactly one batch, each
\* batch embedded before it is written; when the call returns the count is the
\* total number of chunks.
C17_IndexWritePath ==
    (index_round = 1 /\ ipc \in {"running", "done"}) =>
        /\ ListsAreTheChunks
        /\ StoreIsThePassedItems
        /\ BatchesAreConsecutive
        /\ ipc = "done" =>
              /\ Len(store_docs) = Cardinality(ChunkPairsOf(ChunksOfCases))
              /\ case_i = Len(cases) + 1

\* C17 witness: a corpus of 200 cases, the first of two chunks, was written in
\* batches of 100, 100 and 1.
C17_Witness ==
    /\ index_round = 1 /\ ipc = "done"
    /\ Len(store_docs) = 2 * BatchSize + 1
    /\ Cardinality(AddCalls) = 3
    /\ store_calls[NthAdd(1)].n = BatchSize
    /\ store_calls[NthAdd(3)].n = 1
    /\ store_docs[2].id = "case_0_chunk_1"
    /\ store_docs[2 * BatchSize + 1].id = "case_199_chunk_0"

----------------------------------------------------------------------------
(* Properties of concurrent query runs *)

\* The response of a run of the given kind when it is the only run: the
\* composition of its stages over the collection, with the same completions.
AloneResponse(kind) ==
    IF kind = "agentic"
    THEN LET st1 == AnalysisNode(InitialState(query),
                                 CallLlm(client, ConcAnalysisCompletion, FALSE))
             st2 == RetrievalNode(st1, Retrieve(store_docs, EmbedQuery(SearchQuery(st1)),
                                                TopKWorkflow))
             n == Len(FirstN(st2.retrieved_cases, MaxSummarized))
             st3 == SummarizerNode(st2, [i \in 1..n |->
                                            CallLlm(client, SummaryCompletion, FALSE)])
             st4 == AnalystNode(st3, CallLlm(client, AnalystCompletion, FALSE))
         IN WorkflowResponse(query, st4)
    ELSE DirectResponse(query, Retrieve(store_docs, EmbedQuery(<<query>>), TopKDirect),
                        GenerateResponse(client, AnalystCompletion, FALSE))

RunFinished(r) == run_pc[r] \in {"done", "failed", "direct_done", "direct_raised"}

\* C13: concurrent query runs are independent.  In every interleaving of two
\* runs over one retriever, a step of one run leaves the AgentState and the
\* response of the other alone, no step changes the documents of the
\* collection, and every run that ends has returned the response it returns
\* when run alone: the lazy get-or-create of the collection and the lazy model
\* load make no run fail.
C13_RunsIndependent ==
    /\ [](\A r \in Runs : RunFinished(r) => run_response[r] = <<AloneResponse(run_kind[r])>>)
    /\ [][\A r \in Runs : run_pc'[r] = run_pc[r] =>
             (run_state'[r] = run_state[r] /\ run_response'[r] = run_response[r])]_vars
    /\ [][store_docs' = store_docs]_vars

----------------------------------------------------------------------------
(* Properties of the DataLoader *)

\* How many raw rows have a text.
RetainedCount == Cardinality({k \in 1..Len(raw_rows) : raw_rows[k].text # NaText})

\* C18: the case ids are dense and stable.  For every raw corpus, also one in
\* which records without a text are dropped, get_all_cases returns the N
\* retained records with the ids 0..N-1 in order, and get_case_by_id(r.id)
\* returns, for every returned record r, that same record.
C18_DenseStableIds ==
    /\ all_cases # <<>> =>
          /\ Len(all_cases[1]) = RetainedCount
          /\ \A k \in 1..Len(all_cases[1]) : all_cases[1][k].id = k - 1
    /\ (all_cases # <<>> /\ lookup # <<>>) =>
          \A k \in 1..Len(all_cases[1]) :
              all_cases[1][k].id = lookup_id =>
                  /\ ~lookup[1].raised
                  /\ lookup[1].id = all_cases[1][k].id
                  /\ lookup[1].title = all_cases[1][k].title
                  /\ lookup[1].text = all_cases[1][k].text

----------------------------------------------------------------------------
(* Properties of the request layer *)

\* The step handled one request; it is the last of the log afterwards.
Handled == Len(requests') = Len(requests) + 1

Latest == requests'[Len(requests')]

\* Some index request so far was answered with 200.
IndexSucceeded ==
    \E k \in 1..Len(requests) : requests[k].endpoint = "index" /\ requests[k].status = 200

Stages == {"query_analysis", "retrieval", "summarizer", "legal_analyst"}

IsPrefixOf(xs, ys) == Len(xs) <= Len(ys) /\ SubSeq(ys, 1, Len(xs)) = xs

\* The fields of the run state a step changed.
Changed(old, new) == {f \in DOMAIN old : old[f] # new[f]}

\* The fields a node owns, reasoning_steps apart.
Owned(stage) ==
    CASE stage = "query_analysis" -> {"legal_issues", "keywords"}
      [] stage = "retrieval" -> {"retrieved_cases", "related_cases"}
      [] stage = "summarizer" -> {"case_summaries"}
      [] stage = "legal_analyst" -> {"legal_analysis", "final_answer"}

\* The nodes that have not run yet when the run is at a given position.
Ahead(at) ==
    CASE at = "query_analysis" -> Stages
      [] at = "retrieval" -> Stages \ {"query_analysis"}
      [] at = "summarizer" -> {"summarizer", "legal_analyst"}
      [] at = "legal_analyst" -> {"legal_analyst"}
      [] OTHER -> {}

\* C15: the write frame of the run state.  query never changes; reasoning_steps
\* only grows by appending; a step of a node changes, reasoning_steps apart,
\* only the fields that node owns (legal_issues and keywords: query analysis;
\* retrieved_cases and related_cases: retrieval; case_summaries: summarization;
\* legal_analysis and final_answer: synthesis); a field is still empty while
\* its owner has not run, so it is written once; legal_analysis and
\* final_answer are equal in every state.
C15_StateWriteFrame ==
    /\ [][(pc \in Stages) =>
             (/\ state'.query = state.query
              /\ IsPrefixOf(state.reasoning_steps, state'.reasoning_steps)
              /\ Changed(state, state') \subseteq (Owned(pc) \cup {"reasoning_steps"}))]_vars
    /\ [](state # <<>> =>
            /\ state.legal_analysis = state.final_answer
            /\ state.query = query
            /\ \A stage \in Ahead(pc) : \A f \in Owned(stage) : state[f] = <<>>)

\* C15 witness: a finished run in which every node wrote its fields.
C15_Witness ==
    /\ pc = "done"
    /\ state.legal_issues # <<>> /\ state.keywords # <<>>
    /\ state.retrieved_cases # <<>> /\ state.related_cases # <<>>
    /\ state.case_summaries # <<>>
    /\ state.final_answer # <<>> /\ state.legal_analysis = state.final_answer
    /\ Len(state.reasoning_steps) = 4

\* The calls of the language model a node made, as positions in the log.
LlmCallsOf(stage) == {k \in 1..Len(llm_calls) : llm_calls[k].stage = stage}

Min(a, b) == IF a <= b THEN a ELSE b

\* C16: the summarization bound.  In a finished workflow run the vector store
\* was queried once, with n_results = 7, so at most 7 chunks were retrieved;
\* summarization called the language model min(5, retrieved) times and wrote
\* that many summaries, the i-th prefixed with the bracketed title of the i-th
\* retrieved chunk, the chunks being in rank order; cases_analyzed is that
\* number; the run made 2 + cases_analyzed calls of the language model: one
\* of query analysis, then those of summarization, then one of synthesis.
C16_SummarizationBound ==
    pc = "done" =>
        LET retrieved == state.retrieved_cases
            n == Len(retrieved)
            analyzed == Min(5, n)
            queries == CallsOf("query")
        IN /\ Cardinality(queries) = 1
           /\ \A k \in queries : store_calls[k].n = 7
           /\ n = Min(7, Len(store_docs))
           /\ \A i \in 1..n, j \in 1..n :
                 i < j => retrieved[i].distance <= retrieved[j].distance
           /\ Cardinality(LlmCallsOf("summarizer")) = analyzed
           /\ Len(state.case_summaries) = analyzed
           /\ \A i \in 1..analyzed :
                 SubSeq(state.case_summaries[i], 1, 3) =
                     <<"[", retrieved[i].metadata.title, "]: ">>
           /\ response[1].processing_info =
                 {<<"cases_retrieved", n>>, <<"cases_analyzed", analyzed>>}
           /\ Len(llm_calls) = 2 + analyzed
           /\ llm_calls[1].stage = "query_analysis"
           /\ llm_calls[Len(llm_calls)].stage = "legal_analyst"
           /\ LlmCallsOf("summarizer") = 2..(1 + analyzed)

\* C16 witness: a finished run over a collection of more than 7 chunks:
\* 7 retrieved, 5 summarized, 7 calls of the language model.
C16_Witness ==
    /\ pc = "done"
    /\ Len(store_docs) > 7
    /\ Len(state.retrieved_cases) = 7
    /\ Len(state.case_summaries) = 5
    /\ Len(llm_calls) = 7
    /\ \E k \in 1..Len(llm_calls) : ~llm_calls[k].ok

====
